---- MODULE Spec2Model ----
(***************************************************************************)
(* A model of rust-code-builder (src/src/lib.rs): the CodeSpace / Block    *)
(* builders, the recursive renderer Block::to_string_with_indent, and the  *)
(* signature formatter.  Rust Strings are TLA+ strings; a Vec is a         *)
(* sequence; an Option is a record tagged "None" or "Some".                *)
(***************************************************************************)
EXTENDS Integers, Sequences, FiniteSets, TLC

VARIABLES space, blocks, phase, out, last

vars == <<space, blocks, phase, out, last>>

(* ------------------------------ bounds --------------------------------- *)

\* Most Code entries a caller builds in all (the space and every block).
MaxCodes == 3
\* Most Blocks a caller has under construction at once.
MaxNest == 2
\* Largest count handed to insert_new_lines.
MaxCount == 2
\* Largest indent_depth a caller sets (CodeSpace::new() sets 2).
MaxIndent == 1

(* --------------------------- strings and Vec --------------------------- *)

Char(s, i) == SubSeq(s, i, i)

\* str::repeat
RECURSIVE Repeat(_, _)
Repeat(s, n) == IF n = 0 THEN "" ELSE s \o Repeat(s, n - 1)

\* [String]::join
RECURSIVE Join(_, _)
Join(items, sep) ==
  IF Len(items) = 0 THEN ""
  ELSE IF Len(items) = 1 THEN items[1]
  ELSE items[1] \o sep \o Join(Tail(items), sep)

None == [tag |-> "None"]
Some(v) == [tag |-> "Some", value |-> v]

(* ------------------------------- Code ---------------------------------- *)

EmptyLine == [kind |-> "EmptyLine"]
Line(s) == [kind |-> "Line", line |-> s]
CodeBlock(b) == [kind |-> "Block", block |-> b]

(* ----------------------------- signatures ------------------------------ *)

Module(visibility, name) ==
  [variant |-> "Module", visibility |-> visibility, name |-> name]

Function(visibility, is_async, name, generics, params, return_type, where_clauses) ==
  [variant |-> "Function", visibility |-> visibility, is_async |-> is_async,
   name |-> name, generics |-> generics, params |-> params,
   return_type |-> return_type, where_clauses |-> where_clauses]

Custom(s) == [variant |-> "Custom", text |-> s]

SignatureVisibility_to_string(v) ==
  CASE v = "Pub" -> "pub"
    [] v = "PubCrate" -> "pub(crate)"
    [] v = "PubSuper" -> "pub(super)"
    [] v = "PubSelf" -> "pub(self)"

\* .iter().map(|(a, b)| format!("{}: {}", a, b)).collect::<Vec<_>>()
FormatPairs(pairs) == [i \in 1..Len(pairs) |-> pairs[i][1] \o ": " \o pairs[i][2]]

Module_to_string(sig) ==
  LET r1 == IF sig.visibility.tag = "Some"
            THEN SignatureVisibility_to_string(sig.visibility.value) \o " "
            ELSE ""
  IN r1 \o "mod " \o sig.name

\* Mutant: "async " is emitted before the visibility.
Function_to_string_async_first(sig) ==
  LET r1 == IF sig.is_async THEN "async " ELSE ""
      r2 == IF sig.visibility.tag = "Some"
            THEN r1 \o SignatureVisibility_to_string(sig.visibility.value) \o " "
            ELSE r1
      r3 == r2 \o "fn " \o sig.name
      r4 == IF Len(sig.generics) # 0
            THEN r3 \o "<" \o Join(sig.generics, ", ") \o ">"
            ELSE r3
      r5 == r4 \o "(" \o Join(FormatPairs(sig.params), ", ") \o ")"
      r6 == IF sig.return_type.tag = "Some"
            THEN r5 \o " -> " \o sig.return_type.value
            ELSE r5
  IN IF Len(sig.where_clauses) # 0
     THEN r6 \o "\nwhere " \o Join(FormatPairs(sig.where_clauses), ", ")
     ELSE r6

Function_to_string(sig) ==
  LET r1 == IF sig.visibility.tag = "Some"
            THEN SignatureVisibility_to_string(sig.visibility.value) \o " "
            ELSE ""
      r2 == IF sig.is_async THEN r1 \o "async " ELSE r1
      r3 == r2 \o "fn " \o sig.name
      r4 == IF Len(sig.generics) # 0
            THEN r3 \o "<" \o Join(sig.generics, ", ") \o ">"
            ELSE r3
      r5 == r4 \o "(" \o Join(FormatPairs(sig.params), ", ") \o ")"
      r6 == IF sig.return_type.tag = "Some"
            THEN r5 \o " -> " \o sig.return_type.value
            ELSE r5
  IN IF Len(sig.where_clauses) # 0
     THEN r6 \o "\nwhere " \o Join(FormatPairs(sig.where_clauses), ", ")
     ELSE r6

BlockSignature_to_string(sig) ==
  CASE sig.variant = "Module" -> Module_to_string(sig)
    [] sig.variant = "Function" -> Function_to_string(sig)
    [] sig.variant = "Custom" -> sig.text

(* ------------------------------ CodeSpace ------------------------------ *)

CodeSpace_new == [indent_char |-> " ", indent_depth |-> 2, codes |-> <<>>]

\* Mutant: the loop runs over 0..=count.
RECURSIVE PushEmptyLines_inclusive(_, _)
PushEmptyLines_inclusive(codes, count) ==
  IF count = 0 THEN Append(codes, EmptyLine)
  ELSE PushEmptyLines_inclusive(Append(codes, EmptyLine), count - 1)

\* for _ in 0..count { codes.push(Code::EmptyLine) }
RECURSIVE PushEmptyLines(_, _)
PushEmptyLines(codes, count) ==
  IF count = 0 THEN codes
  ELSE PushEmptyLines(Append(codes, EmptyLine), count - 1)

CodeSpace_insert_line(self, content) ==
  [self EXCEPT !.codes = Append(@, Line(content))]

\* Mutant: the condition is ignored.
CodeSpace_insert_line_if_always(self, cond, content) ==
  [self EXCEPT !.codes = Append(@, Line(content))]

CodeSpace_insert_line_if(self, cond, content) ==
  IF cond THEN [self EXCEPT !.codes = Append(@, Line(content))] ELSE self

CodeSpace_insert_block(self, content) ==
  [self EXCEPT !.codes = Append(@, CodeBlock(content))]

CodeSpace_insert_new_line(self) ==
  [self EXCEPT !.codes = Append(@, EmptyLine)]

CodeSpace_insert_new_lines(self, count) ==
  [self EXCEPT !.codes = PushEmptyLines(@, count)]

(* -------------------------------- Block -------------------------------- *)

Block_new == [signature |-> None, codes |-> <<>>]

Block_set_signature(self, signature) == [self EXCEPT !.signature = signature]

Block_insert_line(self, content) ==
  [self EXCEPT !.codes = Append(@, Line(content))]

Block_insert_line_if(self, cond, content) ==
  IF cond THEN [self EXCEPT !.codes = Append(@, Line(content))] ELSE self

Block_insert_block(self, content) ==
  [self EXCEPT !.codes = Append(@, CodeBlock(content))]

Block_insert_new_line(self) ==
  [self EXCEPT !.codes = Append(@, EmptyLine)]

Block_insert_new_lines(self, count) ==
  [self EXCEPT !.codes = PushEmptyLines(@, count)]

\* Mutant: no space between the signature and the opening delimiter.
Block_header_no_space(self, current_indent) ==
  current_indent
    \o (IF self.signature.tag = "Some"
        THEN BlockSignature_to_string(self.signature.value)
        ELSE "")
    \o "{\n"

\* The opening of a block: current_indent, the signature and a space when
\* there is one, then "{\n".
Block_header(self, current_indent) ==
  current_indent
    \o (IF self.signature.tag = "Some"
        THEN BlockSignature_to_string(self.signature.value) \o " "
        ELSE "")
    \o "{\n"

\* Mutant: the closing delimiter's newline is missing.
Block_footer_no_newline(current_indent) == current_indent \o "}"

\* Mutant: the closing delimiter is not indented.
Block_footer_flush(current_indent) == "}\n"

\* The closing of a block: current_indent then "}\n".
Block_footer(current_indent) == current_indent \o "}\n"

\* Mutant: the line gets the block's indent, without the extra level.
Block_line_no_extra(current_indent, indent, line) ==
  current_indent \o line \o "\n"

\* Mutant: the text after each newline of the line is indented as well.
RECURSIVE Reindent(_, _, _)
Reindent(line, i, prefix) ==
  IF i > Len(line) THEN ""
  ELSE IF Char(line, i) = "\n" THEN "\n" \o prefix \o Reindent(line, i + 1, prefix)
  ELSE Char(line, i) \o Reindent(line, i + 1, prefix)

Block_line_reindent(current_indent, indent, line) ==
  current_indent \o indent \o Reindent(line, 1, current_indent \o indent) \o "\n"

\* A Code::Line inside a block.
Block_line(current_indent, indent, line) ==
  current_indent \o indent \o line \o "\n"

RECURSIVE Block_to_string_with_indent(_, _, _)
RECURSIVE Block_codes_to_string(_, _, _, _)

\* for code in &self.codes { match code { ... } }, from entry i on
Block_codes_to_string(codes, i, depth, indent) ==
  IF i > Len(codes) THEN ""
  ELSE LET code == codes[i]
           piece == CASE code.kind = "EmptyLine" -> "\n"
                      [] code.kind = "Line" ->
                           Block_line(Repeat(indent, depth), indent, code.line)
                      [] code.kind = "Block" ->
                           Block_to_string_with_indent(code.block, depth + 1, indent)
       IN piece \o Block_codes_to_string(codes, i + 1, depth, indent)

Block_to_string_with_indent(self, depth, indent) ==
  LET current_indent == Repeat(indent, depth)
  IN Block_header(self, current_indent)
       \o Block_codes_to_string(self.codes, 1, depth, indent)
       \o Block_footer(current_indent)

\* Mutant: a standalone block is indented by four spaces a level.
Block_to_string_four(self) == Block_to_string_with_indent(self, 0, "    ")

\* impl ToString for Block
Block_to_string(self) == Block_to_string_with_indent(self, 0, "  ")

\* A Code::Line at the top level of a CodeSpace.
CodeSpace_line(line) == line \o "\n"

\* Mutant: the entries are walked from the last to the first.
RECURSIVE CodeSpace_codes_to_string_reversed(_, _, _)
CodeSpace_codes_to_string_reversed(codes, i, indent) ==
  IF i > Len(codes) THEN ""
  ELSE LET code == codes[Len(codes) + 1 - i]
           piece == CASE code.kind = "EmptyLine" -> "\n"
                      [] code.kind = "Line" -> CodeSpace_line(code.line)
                      [] code.kind = "Block" ->
                           Block_to_string_with_indent(code.block, 0, indent)
       IN piece \o CodeSpace_codes_to_string_reversed(codes, i + 1, indent)

RECURSIVE CodeSpace_codes_to_string(_, _, _)
CodeSpace_codes_to_string(codes, i, indent) ==
  IF i > Len(codes) THEN ""
  ELSE LET code == codes[i]
           piece == CASE code.kind = "EmptyLine" -> "\n"
                      [] code.kind = "Line" -> CodeSpace_line(code.line)
                      [] code.kind = "Block" ->
                           Block_to_string_with_indent(code.block, 0, indent)
       IN piece \o CodeSpace_codes_to_string(codes, i + 1, indent)

\* impl ToString for CodeSpace
CodeSpace_to_string(self) ==
  LET indent == Repeat(self.indent_char, self.indent_depth)
  IN CodeSpace_codes_to_string(self.codes, 1, indent)

(* ------------------------- the caller's inputs ------------------------- *)

\* Line contents: the empty string, and a text with a newline and a brace
\* in it (the tests bring the plain lines).
Contents == {"", "a\n}"}

\* Signatures given to set_signature: none, a one-line custom header, and
\* a function whose where-clause makes the header two lines.
BlockSigs ==
  { None,
    Some(Custom("if x > 0")),
    Some(Function(None, FALSE, "f", <<>>, <<>>, None, <<<<"T", "Copy">>>>)) }

\* Indent characters a caller sets (CodeSpace::new() sets a space).
IndentChars == {"\t"}

Visibilities == {None, Some("Pub"), Some("PubCrate"), Some("PubSuper"), Some("PubSelf")}
PairLists == {<<>>, <<<<"x", "i32">>>>, <<<<"x", "i32">>, <<"y", "T">>>>}
GenericLists == {<<>>, <<"T">>, <<"T", "U">>}
ReturnTypes == {None, Some("i32")}
FnNames == {"run", ""}

\* Signatures handed to the formatter on its own.
FunctionSigs ==
  { Function(v, a, n, g, p, r, w) :
      v \in Visibilities, a \in BOOLEAN, n \in FnNames, g \in GenericLists,
      p \in PairLists, r \in ReturnTypes, w \in PairLists }

ModuleSigs == { Module(v, n) : v \in Visibilities, n \in {"m", ""} }

(* ------------------------------ the state ------------------------------ *)

\* Number of Code entries in a Vec<Code>, nested ones included.
RECURSIVE CountCodes(_)
CountCodes(codes) ==
  IF Len(codes) = 0 THEN 0
  ELSE (IF codes[1].kind = "Block" THEN 1 + CountCodes(codes[1].block.codes) ELSE 1)
         + CountCodes(Tail(codes))

RECURSIVE CountStack(_)
CountStack(bs) ==
  IF Len(bs) = 0 THEN 0 ELSE CountCodes(bs[1].codes) + CountStack(Tail(bs))

\* Entries built so far; a block under construction counts as the entry it
\* becomes once inserted.
TotalCodes == CountCodes(space.codes) + CountStack(blocks) + Len(blocks)

Top == blocks[Len(blocks)]
Pop == SubSeq(blocks, 1, Len(blocks) - 1)
SetTop(b) == [blocks EXCEPT ![Len(blocks)] = b]

\* What the last call was: the method, its receiver before the call (pre),
\* and its arguments.
Call(op, on, pre, cond, content, count, arg) ==
  [op |-> op, on |-> on, pre |-> pre, cond |-> cond, content |-> content,
   count |-> count, arg |-> arg]

NoCall == Call("new", "CodeSpace", None, FALSE, "", 0, None)

Init ==
  /\ space = CodeSpace_new
  /\ blocks = <<>>
  /\ phase = "build"
  /\ out = ""
  /\ last = NoCall

(* ----------------------------- CodeSpace calls ------------------------- *)

\* A caller builds in a fluent chain: a block handed to insert_block is
\* built in full between two calls on its receiver, so the receiver is
\* appended to only while no block is under construction.

\* The caller sets the pub fields indent_char and indent_depth.  No builder
\* reads or writes them, so the caller sets them last, before rendering:
\* on a CodeSpace that is built, or on an empty one beside a block that
\* will be rendered on its own.
SetIndent ==
  /\ phase = "build"
  /\ blocks = <<>> \/ (Len(blocks) = 1 /\ space.codes = <<>>)
  /\ \E c \in IndentChars, n \in 0..MaxIndent :
       /\ space' = [space EXCEPT !.indent_char = c, !.indent_depth = n]
       /\ last' = Call("set_indent", "CodeSpace", space, FALSE, c, n, None)
  /\ phase' = "ready"
  /\ UNCHANGED <<blocks, out>>

SpaceInsertLine ==
  /\ phase = "build" /\ blocks = <<>> /\ TotalCodes < MaxCodes
  /\ \E content \in Contents :
       /\ space' = CodeSpace_insert_line(space, content)
       /\ last' = Call("insert_line", "CodeSpace", space, TRUE, content, 0, None)
  /\ UNCHANGED <<blocks, phase, out>>

SpaceInsertLineIf ==
  /\ phase = "build" /\ blocks = <<>> /\ TotalCodes < MaxCodes
  /\ \E cond \in BOOLEAN, content \in Contents :
       /\ space' = CodeSpace_insert_line_if(space, cond, content)
       /\ last' = Call("insert_line_if", "CodeSpace", space, cond, content, 0, None)
  /\ UNCHANGED <<blocks, phase, out>>

SpaceInsertBlock ==
  /\ phase = "build" /\ Len(blocks) = 1
  /\ space' = CodeSpace_insert_block(space, Top)
  /\ blocks' = Pop
  /\ last' = Call("insert_block", "CodeSpace", space, TRUE, "", 0, Top)
  /\ UNCHANGED <<phase, out>>

SpaceInsertNewLine ==
  /\ phase = "build" /\ blocks = <<>> /\ TotalCodes < MaxCodes
  /\ space' = CodeSpace_insert_new_line(space)
  /\ last' = Call("insert_new_line", "CodeSpace", space, TRUE, "", 1, None)
  /\ UNCHANGED <<blocks, phase, out>>

SpaceInsertNewLines ==
  /\ phase = "build" /\ blocks = <<>>
  /\ \E count \in 0..MaxCount :
       /\ TotalCodes + count <= MaxCodes
       /\ space' = CodeSpace_insert_new_lines(space, count)
       /\ last' = Call("insert_new_lines", "CodeSpace", space, TRUE, "", count, None)
  /\ UNCHANGED <<blocks, phase, out>>

\* code.to_string(), once every block built has been moved in
SpaceToString ==
  /\ phase \in {"build", "ready"} /\ blocks = <<>>
  /\ out' = CodeSpace_to_string(space)
  /\ phase' = "done"
  /\ last' = Call("to_string", "CodeSpace", space, TRUE, "", 0, None)
  /\ UNCHANGED <<space, blocks>>

(* ------------------------------ Block calls ---------------------------- *)

BlockNew ==
  /\ phase = "build" /\ Len(blocks) < MaxNest /\ TotalCodes < MaxCodes
  /\ blocks' = Append(blocks, Block_new)
  /\ last' = Call("new", "Block", None, TRUE, "", 0, None)
  /\ UNCHANGED <<space, phase, out>>

BlockSetSignature ==
  /\ phase = "build" /\ Len(blocks) >= 1
  /\ \E signature \in BlockSigs :
       /\ blocks' = SetTop(Block_set_signature(Top, signature))
       /\ last' = Call("set_signature", "Block", Top, TRUE, "", 0, signature)
  /\ UNCHANGED <<space, phase, out>>

BlockInsertLine ==
  /\ phase = "build" /\ Len(blocks) >= 1 /\ TotalCodes < MaxCodes
  /\ \E content \in Contents :
       /\ blocks' = SetTop(Block_insert_line(Top, content))
       /\ last' = Call("insert_line", "Block", Top, TRUE, content, 0, None)
  /\ UNCHANGED <<space, phase, out>>

BlockInsertLineIf ==
  /\ phase = "build" /\ Len(blocks) >= 1 /\ TotalCodes < MaxCodes
  /\ \E cond \in BOOLEAN, content \in Contents :
       /\ blocks' = SetTop(Block_insert_line_if(Top, cond, content))
       /\ last' = Call("insert_line_if", "Block", Top, cond, content, 0, None)
  /\ UNCHANGED <<space, phase, out>>

\* The innermost block under construction moves into the one that encloses it.
BlockInsertBlock ==
  /\ phase = "build" /\ Len(blocks) >= 2
  /\ LET parent == blocks[Len(blocks) - 1]
     IN /\ blocks' = [Pop EXCEPT ![Len(blocks) - 1] = Block_insert_block(parent, Top)]
        /\ last' = Call("insert_block", "Block", parent, TRUE, "", 0, Top)
  /\ UNCHANGED <<space, phase, out>>

BlockInsertNewLine ==
  /\ phase = "build" /\ Len(blocks) >= 1 /\ TotalCodes < MaxCodes
  /\ blocks' = SetTop(Block_insert_new_line(Top))
  /\ last' = Call("insert_new_line", "Block", Top, TRUE, "", 1, None)
  /\ UNCHANGED <<space, phase, out>>

BlockInsertNewLines ==
  /\ phase = "build" /\ Len(blocks) >= 1
  /\ \E count \in 0..MaxCount :
       /\ TotalCodes + count <= MaxCodes
       /\ blocks' = SetTop(Block_insert_new_lines(Top, count))
       /\ last' = Call("insert_new_lines", "Block", Top, TRUE, "", count, None)
  /\ UNCHANGED <<space, phase, out>>

\* block.to_string() on a block that stands alone
BlockToString ==
  /\ phase \in {"build", "ready"} /\ Len(blocks) = 1
  /\ out' = Block_to_string(Top)
  /\ phase' = "done"
  /\ last' = Call("to_string", "Block", Top, TRUE, "", 0, None)
  /\ UNCHANGED <<space, blocks>>

(* --------------------------- signature formatting ---------------------- *)

\* signature.to_string() on a signature that stands alone
SignatureToString ==
  /\ phase = "build" /\ last = NoCall
  /\ \E signature \in FunctionSigs \cup ModuleSigs \cup {Custom("if x > 0"), Custom("")} :
       /\ out' = BlockSignature_to_string(signature)
       /\ last' = Call("to_string", "BlockSignature", signature, TRUE, "", 0, None)
  /\ phase' = "done"
  /\ UNCHANGED <<space, blocks>>

(* -------------------------------- tests -------------------------------- *)

\* tests/mod.rs test_simple
test_simple_code ==
  CodeSpace_insert_block(
    CodeSpace_insert_line(CodeSpace_insert_line(CodeSpace_new, "//! comment"), ""),
    Block_insert_block(
      Block_insert_line(Block_new, "testing"),
      Block_insert_line(Block_new, "testing")))

\* tests/mod.rs test_example
test_example_code ==
  CodeSpace_insert_block(
    CodeSpace_insert_new_line(CodeSpace_insert_line(CodeSpace_new, "let x = 42;")),
    Block_insert_line(
      Block_set_signature(Block_new, Some(Custom("if x > 0"))),
      "println!(\"Positive number!\");"))

test_simple ==
  /\ phase = "build" /\ last = NoCall
  /\ space' = test_simple_code
  /\ out' = CodeSpace_to_string(test_simple_code)
  /\ phase' = "done"
  /\ last' = Call("test_simple", "CodeSpace", test_simple_code, TRUE, "", 0, None)
  /\ UNCHANGED blocks

test_example ==
  /\ phase = "build" /\ last = NoCall
  /\ space' = test_example_code
  /\ out' = CodeSpace_to_string(test_example_code)
  /\ phase' = "done"
  /\ last' = Call("test_example", "CodeSpace", test_example_code, TRUE, "", 0, None)
  /\ UNCHANGED blocks

Next ==
  \/ SetIndent
  \/ SpaceInsertLine
  \/ SpaceInsertLineIf
  \/ SpaceInsertBlock
  \/ SpaceInsertNewLine
  \/ SpaceInsertNewLines
  \/ SpaceToString
  \/ BlockNew
  \/ BlockSetSignature
  \/ BlockInsertLine
  \/ BlockInsertLineIf
  \/ BlockInsertBlock
  \/ BlockInsertNewLine
  \/ BlockInsertNewLines
  \/ BlockToString
  \/ SignatureToString
  \/ test_simple
  \/ test_example

Spec == Init /\ [][Next]_vars

(* ======================= properties of the builders ==================== *)

\* The receiver of the last builder call, after the call.
Receiver == IF last.on = "CodeSpace" THEN space ELSE Top

IsCode(c) ==
  \/ c = EmptyLine
  \/ c.kind = "Line" /\ DOMAIN c = {"kind", "line"}
  \/ c.kind = "Block" /\ DOMAIN c = {"kind", "block"}

\* C4: insert_line_if(false, x) leaves the receiver as it was (same
\* entries, same length); insert_line_if(true, x) yields the value
\* insert_line(x) yields; on CodeSpace and on Block alike.
C4_ConditionalAppend ==
  last.op = "insert_line_if" =>
    IF last.cond
    THEN Receiver = (IF last.on = "CodeSpace"
                     THEN CodeSpace_insert_line(last.pre, last.content)
                     ELSE Block_insert_line(last.pre, last.content))
    ELSE /\ Receiver = last.pre
         /\ Len(Receiver.codes) = Len(last.pre.codes)

\* insert_line_if(false, x) was called on a CodeSpace that holds entries.
C4_Witness ==
  /\ last.op = "insert_line_if" /\ last.on = "CodeSpace" /\ ~last.cond
  /\ last.content = "a\n}" /\ Len(last.pre.codes) = 2

\* C9: insert_new_lines(count) appends exactly count EmptyLine entries
\* behind the entries there were; with count 0 the receiver is unchanged;
\* with count 1 the value is the one insert_new_line() yields; and every
\* builder call yields a value (a Vec of Code entries) whatever its input.
C9_BlankLineAppends ==
  /\ last.op = "insert_new_lines" =>
       /\ Len(Receiver.codes) = Len(last.pre.codes) + last.count
       /\ SubSeq(Receiver.codes, 1, Len(last.pre.codes)) = last.pre.codes
       /\ \A i \in Len(last.pre.codes) + 1 .. Len(Receiver.codes) :
            Receiver.codes[i] = EmptyLine
       /\ Receiver = [last.pre EXCEPT !.codes = Receiver.codes]
       /\ last.count = 0 => Receiver = last.pre
       /\ last.count = 1 =>
            Receiver = (IF last.on = "CodeSpace"
                        THEN CodeSpace_insert_new_line(last.pre)
                        ELSE Block_insert_new_line(last.pre))
  /\ \A i \in 1..Len(space.codes) : IsCode(space.codes[i])
  /\ \A b \in 1..Len(blocks) :
       \A i \in 1..Len(blocks[b].codes) : IsCode(blocks[b].codes[i])

\* insert_new_lines(2) was called on a CodeSpace that holds an entry.
C9_Witness ==
  /\ last.op = "insert_new_lines" /\ last.on = "CodeSpace" /\ last.count = 2
  /\ Len(last.pre.codes) = 1 /\ last.pre.codes[1] = Line("")

(* ====================== properties of the renderers ==================== *)

\* C6: a CodeSpace that holds no entry renders to the empty string, and
\* Block::new() renders to "{\n}\n".
C6_EmptyInput ==
  last.op = "to_string" =>
    /\ (last.on = "CodeSpace" /\ last.pre.codes = <<>>) => out = ""
    /\ (last.on = "Block" /\ last.pre = Block_new) => out = "{\n}\n"

\* Block::new().to_string() was called.
C6_Witness ==
  /\ last.op = "to_string" /\ last.on = "Block" /\ last.pre = Block_new
  /\ phase = "done" /\ Len(out) = 4

(* ==================== properties of the signature formatter ============ *)

VisibilityToken(v) ==
  CASE v = "Pub" -> "pub"
    [] v = "PubCrate" -> "pub(crate)"
    [] v = "PubSuper" -> "pub(super)"
    [] v = "PubSelf" -> "pub(self)"

RECURSIVE JoinedBy(_, _)
JoinedBy(items, sep) ==
  IF items = <<>> THEN ""
  ELSE IF Tail(items) = <<>> THEN Head(items)
  ELSE Head(items) \o sep \o JoinedBy(Tail(items), sep)

Pairs(ps) == [i \in DOMAIN ps |-> ps[i][1] \o ": " \o ps[i][2]]

\* The function header as section 4.2 of the specification words it.
FunctionFormat(f) ==
  (IF f.visibility = None THEN "" ELSE VisibilityToken(f.visibility.value) \o " ")
    \o (IF f.is_async THEN "async " ELSE "")
    \o "fn "
    \o f.name
    \o (IF f.generics = <<>> THEN "" ELSE "<" \o JoinedBy(f.generics, ", ") \o ">")
    \o "(" \o JoinedBy(Pairs(f.params), ", ") \o ")"
    \o (IF f.return_type = None THEN "" ELSE " -> " \o f.return_type.value)
    \o (IF f.where_clauses = <<>> THEN ""
        ELSE "\nwhere " \o JoinedBy(Pairs(f.where_clauses), ", "))

ScenarioC ==
  Function(Some("Pub"), TRUE, "run", <<>>, <<<<"x", "i32">>>>, Some("i32"), <<>>)

\* C8: a function signature formats to: the visibility token and a space
\* if there is one, "async " iff is_async, "fn ", the name, the generics in
\* angle brackets if there are any, the parameters in parentheses, " -> "
\* and the return type if there is one, and a newline and "where " with
\* the clauses if there are any; scenario C formats to
\* "pub async fn run(x: i32) -> i32".
C8_FunctionSignatureFormat ==
  (last.op = "to_string" /\ last.on = "BlockSignature"
     /\ last.pre.variant = "Function") =>
    /\ out = FunctionFormat(last.pre)
    /\ last.pre = ScenarioC => out = "pub async fn run(x: i32) -> i32"

\* Scenario C was formatted.
C8_Witness ==
  /\ last.op = "to_string" /\ last.on = "BlockSignature" /\ last.pre = ScenarioC
  /\ phase = "done"

(* =================== the rendering the specification words ============= *)

RECURSIVE Times(_, _)
Times(s, n) == IF n <= 0 THEN "" ELSE Times(s, n - 1) \o s

Unit(doc) == Times(doc.indent_char, doc.indent_depth)

\* format(signature) of section 4.2.
SignatureFormat(sig) ==
  CASE sig.variant = "Module" ->
         (IF sig.visibility = None THEN ""
          ELSE VisibilityToken(sig.visibility.value) \o " ") \o "mod " \o sig.name
    [] sig.variant = "Function" -> FunctionFormat(sig)
    [] sig.variant = "Custom" -> sig.text

RECURSIVE RenderBlock(_, _, _)
RECURSIVE RenderChildren(_, _, _)

\* Step 2 of section 4.1, the children of a Block at depth d.
RenderChildren(entries, d, unit) ==
  IF entries = <<>> THEN ""
  ELSE LET e == Head(entries)
       IN (CASE e.kind = "EmptyLine" -> "\n"
             [] e.kind = "Line" -> Times(unit, d) \o unit \o e.line \o "\n"
             [] e.kind = "Block" -> RenderBlock(e.block, d + 1, unit))
            \o RenderChildren(Tail(entries), d, unit)

\* Step 2 of section 4.1, a Block at depth d.
RenderBlock(b, d, unit) ==
  Times(unit, d)
    \o (IF b.signature = None THEN "" ELSE SignatureFormat(b.signature.value) \o " ")
    \o "{\n"
    \o RenderChildren(b.codes, d, unit)
    \o Times(unit, d) \o "}\n"

\* Step 1 of section 4.1, the entries of the Document.
RECURSIVE RenderEntries(_, _)
RenderEntries(entries, unit) ==
  IF entries = <<>> THEN ""
  ELSE LET e == Head(entries)
       IN (CASE e.kind = "EmptyLine" -> "\n"
             [] e.kind = "Line" -> e.line \o "\n"
             [] e.kind = "Block" -> RenderBlock(e.block, 0, unit))
            \o RenderEntries(Tail(entries), unit)

RenderDocument(doc) == RenderEntries(doc.codes, Unit(doc))

ScenarioA == "//! comment\n\n{\n  testing\n  {\n    testing\n  }\n}\n"

ScenarioB == "let x = 42;\n\nif x > 0 {\n  println!(\"Positive number!\");\n}\n"

\* C5: CodeSpace::to_string yields the depth-first rendering of section
\* 4.1 for every document and indent setting: top-level lines without a
\* prefix, a block at depth d opened by unit x d, its signature and a
\* space, and "{", its lines prefixed by unit x d and one more unit, its
\* blocks at depth d + 1, closed by unit x d and "}"; the two tests yield
\* the outputs of scenarios A and B.
C5_DocumentRendering ==
  /\ (last.op = "to_string" /\ last.on = "CodeSpace") => out = RenderDocument(last.pre)
  /\ last.op = "test_simple" => out = ScenarioA
  /\ last.op = "test_example" => out = ScenarioB

\* A document indented by tabs was rendered: a block with a signature
\* that holds a block.
C5_Witness ==
  /\ last.op = "to_string" /\ last.on = "CodeSpace" /\ phase = "done"
  /\ last.pre.indent_char = "\t" /\ last.pre.indent_depth = 1
  /\ Len(last.pre.codes) = 2
  /\ last.pre.codes[1] = Line("a\n}")
  /\ last.pre.codes[2].kind = "Block"
  /\ last.pre.codes[2].block.signature = Some(Custom("if x > 0"))
  /\ Len(last.pre.codes[2].block.codes) = 1
  /\ last.pre.codes[2].block.codes[1].kind = "Block"

\* C7: Block::to_string renders from depth 0 with a unit of two spaces,
\* whatever any CodeSpace holds: it yields what a CodeSpace::new() whose
\* only entry is that block renders to, nested blocks one two-space unit
\* deeper a level.
C7_StandaloneBlock ==
  (last.op = "to_string" /\ last.on = "Block") =>
    /\ out = CodeSpace_to_string(CodeSpace_insert_block(CodeSpace_new, last.pre))
    /\ out = RenderBlock(last.pre, 0, "  ")

\* A block that holds a block that holds a line was rendered on its own,
\* beside a CodeSpace indented by tabs.
C7_Witness ==
  /\ last.op = "to_string" /\ last.on = "Block" /\ phase = "done"
  /\ space.indent_char = "\t" /\ space.indent_depth = 1
  /\ Len(last.pre.codes) = 1
  /\ last.pre.codes[1].kind = "Block"
  /\ last.pre.codes[1].block.codes = <<Line("a\n}")>>
  /\ out = "{\n  {\n    a\n}\n  }\n}\n"

(* ================== the output, line by line, against the tree ========= *)

\* The pieces of a text that its newlines separate.
RECURSIVE SplitAt(_, _, _)
SplitAt(s, i, from) ==
  IF i > Len(s) THEN <<SubSeq(s, from, Len(s))>>
  ELSE IF Char(s, i) = "\n" THEN <<SubSeq(s, from, i - 1)>> \o SplitAt(s, i + 1, i + 1)
  ELSE SplitAt(s, i + 1, from)

Segs(text) == SplitAt(text, 1, 1)

\* The lines of the output: the pieces its newlines end.
OutLines == LET p == Segs(out) IN SubSeq(p, 1, Len(p) - 1)

\* The text of a block's opening: its signature and a space, then "{".
Opening(b) ==
  (IF b.signature = None THEN "" ELSE SignatureFormat(b.signature.value) \o " ") \o "{"

Item(kind, n, text, path) ==
  [kind |-> kind, n |-> n, text |-> text, segs |-> Segs(text), path |-> path]

\* The tree in depth-first order: one item per blank line and per text
\* line, and two per block (its opening and its closing), each with the
\* number n of Blocks that enclose it, its text line by line (segs), and
\* its path from the root.
RECURSIVE Items(_, _, _, _)
Items(codes, i, n, path) ==
  IF i > Len(codes) THEN <<>>
  ELSE LET c == codes[i]
           at == Append(path, i)
       IN (CASE c.kind = "EmptyLine" -> <<Item("Empty", n, "", at)>>
             [] c.kind = "Line" -> <<Item("Line", n, c.line, at)>>
             [] c.kind = "Block" ->
                  <<Item("Open", n, Opening(c.block), at)>>
                    \o Items(c.block.codes, 1, n + 1, at)
                    \o <<Item("Close", n, "}", at)>>)
            \o Items(codes, i + 1, n, path)

\* A CodeSpace was rendered (by a caller or by a test).
Rendered ==
  /\ phase = "done" /\ last.on = "CodeSpace"
  /\ last.op \in {"to_string", "test_simple", "test_example"}

RenderedItems == Items(last.pre.codes, 1, 0, <<>>)

\* For each item, the output line on which it starts, when every item
\* takes as many output lines as its text has; and, last, the line after
\* the last item.
RECURSIVE StartsFrom(_, _, _)
StartsFrom(items, k, at) ==
  IF k > Len(items) THEN <<at>>
  ELSE <<at>> \o StartsFrom(items, k + 1, at + Len(items[k].segs))

Starts(items) == StartsFrom(items, 1, 1)

\* The output has the lines the items have in all.
Aligned(items, starts, lines) == Len(lines) = starts[Len(items) + 1] - 1

EndsWith(s, p) == Len(p) <= Len(s) /\ SubSeq(s, Len(s) - Len(p) + 1, Len(s)) = p

AllChar(s, ch) == \A i \in 1..Len(s) : Char(s, i) = ch

\* The indentation prefix of a line: its leading run of the indent character.
RECURSIVE PrefixLen(_, _, _)
PrefixLen(s, ch, i) ==
  IF i <= Len(s) /\ Char(s, i) = ch THEN PrefixLen(s, ch, i + 1) ELSE i - 1

IndentPrefix(s, ch) == SubSeq(s, 1, PrefixLen(s, ch, 1))

RECURSIVE CountFrom(_, _, _)
CountFrom(s, ch, i) ==
  IF i > Len(s) THEN 0
  ELSE (IF Char(s, i) = ch THEN 1 ELSE 0) + CountFrom(s, ch, i + 1)

CountChar(s, ch) == CountFrom(s, ch, 1)

(* ------------------------------- C1 ------------------------------------ *)

\* C1 as claimed: a text line enclosed by d Blocks (the Document not
\* counted) is emitted behind unit x d and one extra unit.
C1_AsClaimed ==
  Rendered =>
    \A items \in {RenderedItems}, lines \in {OutLines}, unit \in {Unit(last.pre)} :
      \A starts \in {Starts(items)} :
        /\ Aligned(items, starts, lines)
        /\ \A k \in 1..Len(items) :
             items[k].kind = "Line" =>
               lines[starts[k]] = Times(unit, items[k].n) \o unit \o items[k].segs[1]

\* C1 amended: a text line held by a Block that d Blocks enclose (d = 0
\* for a block of the Document itself) is emitted behind unit x d and
\* one extra unit, which is one unit per enclosing Block; a text line of
\* the Document itself is emitted with no prefix.
C1_IndentationDepth ==
  Rendered =>
    \A items \in {RenderedItems}, lines \in {OutLines}, unit \in {Unit(last.pre)} :
      \A starts \in {Starts(items)} :
        /\ Aligned(items, starts, lines)
        /\ \A k \in 1..Len(items) :
             items[k].kind = "Line" =>
               lines[starts[k]]
                 = (IF items[k].n = 0 THEN ""
                    ELSE Times(unit, items[k].n - 1) \o unit) \o items[k].segs[1]

\* A document was rendered, with a unit of one tab, that holds a text
\* line inside two blocks.
C1_Witness ==
  /\ Rendered /\ last.op = "to_string"
  /\ Unit(last.pre) = "\t"
  /\ \E k \in 1..Len(RenderedItems) :
       /\ RenderedItems[k].kind = "Line" /\ RenderedItems[k].n = 2
       /\ RenderedItems[k].text = "a\n}"
       /\ OutLines[Starts(RenderedItems)[k]] = "\t\ta"

(* ------------------------------- C2 ------------------------------------ *)

\* The item that closes the block item k opens.
ClosingOf(items, k) ==
  CHOOSE m \in 1..Len(items) :
    items[m].kind = "Close" /\ items[m].path = items[k].path

\* The output line that carries the "{" of the block item k opens: the
\* last line of its opening.
BraceLine(items, starts, k) == starts[k] + Len(items[k].segs) - 1

RECURSIVE SumOver(_, _, _)
SumOver(items, kind, ch) ==
  IF items = <<>> THEN 0
  ELSE (IF Head(items).kind = kind THEN CountChar(Head(items).text, ch) ELSE 0)
         + SumOver(Tail(items), kind, ch)

Blocks(items) == {k \in 1..Len(items) : items[k].kind = "Open"}

\* The delimiters ch of the output: its characters ch that no text line
\* and no signature brought in ("{" ends every opening, "}" is every closing).
Delimiters(items, ch) ==
  CountChar(out, ch) - SumOver(items, "Line", ch)
    - (IF ch = "{" THEN SumOver(items, "Open", ch) - Cardinality(Blocks(items))
       ELSE SumOver(items, "Open", ch))

DelimitersBalanced(items) ==
  /\ Delimiters(items, "{") = Cardinality(Blocks(items))
  /\ Delimiters(items, "}") = Cardinality(Blocks(items))

\* C2 as claimed: for every block, the line that carries its "{" and the
\* line that carries its "}" start with the same indentation prefix, and
\* the output holds as many opening as closing delimiters.
C2_AsClaimed ==
  Rendered =>
    \A items \in {RenderedItems}, lines \in {OutLines}, ch \in {last.pre.indent_char} :
      \A starts \in {Starts(items)} :
        /\ Aligned(items, starts, lines)
        /\ \A k \in Blocks(items) :
             IndentPrefix(lines[BraceLine(items, starts, k)], ch)
               = IndentPrefix(lines[starts[ClosingOf(items, k)]], ch)
        /\ DelimitersBalanced(items)

\* C2 amended: for every block at depth d, the first line of its opening
\* and the line that carries its "}" start with the same indentation
\* prefix, unit x d; that first line carries the "{" when the formatted
\* signature holds no newline, and otherwise the "{" ends the signature's
\* last line, which is emitted with no prefix; and the output holds as
\* many opening as closing delimiters.
C2_BalancedDelimiters ==
  Rendered =>
    \A items \in {RenderedItems}, lines \in {OutLines}, ch \in {last.pre.indent_char} :
      \A starts \in {Starts(items)}, unit \in {Unit(last.pre)} :
        /\ Aligned(items, starts, lines)
        /\ \A k \in Blocks(items) :
             LET segs == items[k].segs
                 first == lines[starts[k]]
                 closing == lines[starts[ClosingOf(items, k)]]
             IN /\ first = Times(unit, items[k].n) \o segs[1]
                /\ closing = Times(unit, items[k].n) \o "}"
                /\ IndentPrefix(first, ch) = IndentPrefix(closing, ch)
                /\ IF Len(segs) = 1
                   THEN EndsWith(first, "{")
                   ELSE lines[BraceLine(items, starts, k)] = segs[Len(segs)]
        /\ DelimitersBalanced(items)

\* A document was rendered, with a unit of one tab, that holds a block
\* with a one-line signature inside a block, and a text line with a "}".
C2_Witness ==
  /\ Rendered /\ last.op = "to_string"
  /\ Unit(last.pre) = "\t"
  /\ OutLines = <<"{", "\tif x > 0 {", "\t\ta", "}", "\t}", "}">>

(* ------------------------------- C3 ------------------------------------ *)

\* The entries a builder call appends, in call order.
Appended ==
  CASE last.op = "insert_line" -> <<Line(last.content)>>
    [] last.op = "insert_line_if" ->
         IF last.cond THEN <<Line(last.content)>> ELSE <<>>
    [] last.op = "insert_block" -> <<CodeBlock(last.arg)>>
    [] last.op = "insert_new_line" -> <<EmptyLine>>
    [] last.op = "insert_new_lines" -> [i \in 1..last.count |-> EmptyLine]

Appends ==
  {"insert_line", "insert_line_if", "insert_block", "insert_new_line", "insert_new_lines"}

\* C3: every append leaves the entries there were as a prefix, unchanged
\* and in place, and adds its own entries behind them in call order; and
\* the output is the entries' text in that order, line for line, a nested
\* block's lines together between its opening and its closing.
C3_OrderPreservation ==
  /\ last.op \in Appends =>
       /\ Receiver.codes = last.pre.codes \o Appended
       /\ Receiver = [last.pre EXCEPT !.codes = Receiver.codes]
  /\ Rendered =>
       \A items \in {RenderedItems}, lines \in {OutLines}, ch \in {last.pre.indent_char} :
         \A starts \in {Starts(items)} :
           /\ Aligned(items, starts, lines)
           /\ \A k \in 1..Len(items) :
                LET segs == items[k].segs
                    first == lines[starts[k]]
                IN /\ EndsWith(first, segs[1])
                   /\ AllChar(SubSeq(first, 1, Len(first) - Len(segs[1])), ch)
                   /\ \A j \in 2..Len(segs) : lines[starts[k] + j - 1] = segs[j]

\* A document of three entries, a two-line text line, an empty block and
\* an empty text line, was rendered.
C3_Witness ==
  /\ Rendered /\ last.op = "to_string"
  /\ Len(last.pre.codes) = 3
  /\ last.pre.codes[1] = Line("a\n}")
  /\ last.pre.codes[2] = CodeBlock([signature |-> None, codes |-> <<>>])
  /\ last.pre.codes[3] = Line("")
  /\ OutLines = <<"a", "}", "{", "}", "">>

(* ------------------------------- C10 ----------------------------------- *)

\* C10: a text line inside a block, and a block's signature, that hold a
\* newline get the indentation prefix once, before their first line;
\* what follows each of their newlines is emitted as it is, with no prefix.
C10_NoReindent ==
  Rendered =>
    \A items \in {RenderedItems}, lines \in {OutLines}, unit \in {Unit(last.pre)} :
      \A starts \in {Starts(items)} :
        /\ Aligned(items, starts, lines)
        /\ \A k \in 1..Len(items) :
             LET segs == items[k].segs
                 inBlockLine == items[k].kind = "Line" /\ items[k].n >= 1
                 opening == items[k].kind = "Open"
             IN (Len(segs) >= 2 /\ (inBlockLine \/ opening)) =>
                  /\ lines[starts[k]] = Times(unit, items[k].n) \o segs[1]
                  /\ \A j \in 2..Len(segs) : lines[starts[k] + j - 1] = segs[j]

\* A document was rendered, with a unit of one tab, that holds a block,
\* inside a block, whose signature has a where-clause and which holds a
\* text line with a newline.
C10_Witness ==
  /\ Rendered /\ last.op = "to_string"
  /\ Unit(last.pre) = "\t"
  /\ OutLines = <<"{", "\tfn f()", "where T: Copy {", "\t\ta", "}", "\t}", "}">>

====
